---- MODULE Spec2Model ----
(***************************************************************************)
(* A model of the bridge-plan extraction program: the text normaliser and  *)
(* the title-sheet text extractor of tool.py and the batch driver of       *)
(* main.py.                                                                *)
(*                                                                         *)
(* Python strings are sequences of one-character strings.  Inside the      *)
(* normaliser every character carries the index it had in the input (0     *)
(* for a character a replacement inserted), so that "this token was        *)
(* removed" and "this token is still there" are statements about           *)
(* characters of the input and not about look-alikes.                      *)
(***************************************************************************)
EXTENDS Naturals, Sequences, FiniteSets

\* ------------------------------------------------------------ characters

UpperSeq == <<"A","B","C","D","E","F","G","H","I","J","K","L","M",
              "N","O","P","Q","R","S","T","U","V","W","X","Y","Z">>

LowerSeq == <<"a","b","c","d","e","f","g","h","i","j","k","l","m",
              "n","o","p","q","r","s","t","u","v","w","x","y","z">>

Upper == {UpperSeq[i] : i \in 1..26}

Lower == {LowerSeq[i] : i \in 1..26}

Letter == Upper \cup Lower

Digit == {"0","1","2","3","4","5","6","7","8","9"}

\* \s of the re module, on the characters the inputs use
Space == {" ", "\t", "\n", "\r", "\f"}

\* \w of the re module
WordChar == Letter \cup Digit \cup {"_"}

\* str.lower() on one character
LowerOf == [c \in Upper |-> LowerSeq[CHOOSE i \in 1..26 : UpperSeq[i] = c]]

LowerChar(c) == IF c \in Upper THEN LowerOf[c] ELSE c

\* str.lower()
lower(s) == [i \in 1..Len(s) |-> LowerChar(s[i])]

\* str.endswith(suffix)
endswith(s, suffix) ==
  /\ Len(suffix) <= Len(s)
  /\ SubSeq(s, Len(s) - Len(suffix) + 1, Len(s)) = suffix

\* ------------------------------------------------- tagged text, matching

\* the text with every character tagged with its index
Tag(s) == [i \in 1..Len(s) |-> <<s[i], i>>]

\* a replacement's literal text: characters that come from no input index
Lit(s) == [i \in 1..Len(s) |-> <<s[i], 0>>]

\* the characters of a tagged text
Untag(t) == [i \in 1..Len(t) |-> t[i][1]]

\* whether position i of t holds a character of class cls
IsIn(t, i, cls) == i >= 1 /\ i <= Len(t) /\ t[i][1] \in cls

\* the literal lit at position i of t, letters compared without case (re.IGNORECASE)
MatchLitCI(t, i, lit) ==
  /\ i >= 1
  /\ i + Len(lit) - 1 <= Len(t)
  /\ \A j \in 1..Len(lit) : LowerChar(t[i + j - 1][1]) = LowerChar(lit[j])

\* the length of the longest run of cls characters that starts at position i
RECURSIVE RunLen(_, _, _)
RunLen(t, i, cls) == IF IsIn(t, i, cls) THEN 1 + RunLen(t, i + 1, cls) ELSE 0

\* \b between positions i-1 and i
WordBoundary(t, i) == IsIn(t, i - 1, WordChar) # IsIn(t, i, WordChar)

\* \d{n} at position i
DigitsAt(t, i, n) == \A j \in 0..(n - 1) : IsIn(t, i + j, Digit)

\* ------------------------------------------------ the patterns of tool.py

ContractLit == <<"C","O","N","T","R","A","C","T">>

ForLit == <<"F","O","R">>

ContractForLit == <<"C","O","N","T","R","A","C","T"," ","F","O","R">>

JobNumberLit == <<" ","J","o","b"," ","N","u","m","b","e","r"," ">>

DateLit == <<" ","D","a","t","e"," ">>

\* the alternatives of the noise pattern, in the pattern's order
NoiseAlternatives ==
  << <<"T","I","T","L","E"," ","S","H","E","E","T">>,
     <<"D","R","A","W","I","N","G">>,
     <<"S","H","E","E","T">>,
     <<"T","I","T","L","E">>,
     <<"D","E","S","I","G","N">> >>

\* (CONTRACT)\s*FOR, IGNORECASE: the match's length at i, 0 for no match
ContractForLen(t, i) ==
  IF ~MatchLitCI(t, i, ContractLit) THEN 0
  ELSE LET k == RunLen(t, i + 8, Space)
       IN  IF MatchLitCI(t, i + 8 + k, ForLit) THEN 8 + k + 3 ELSE 0

\* (CONTRACT FOR)([A-Z]), IGNORECASE: the class matches both cases
SquishedLen(t, i) ==
  IF MatchLitCI(t, i, ContractForLit) /\ IsIn(t, i + 12, Letter) THEN 13 ELSE 0

\* \bJN\b or \bDATE\b, IGNORECASE
TokenLen(t, i, lit) ==
  IF /\ WordBoundary(t, i)
     /\ MatchLitCI(t, i, lit)
     /\ WordBoundary(t, i + Len(lit))
  THEN Len(lit) ELSE 0

\* TITLE SHEET|DRAWING|SHEET|TITLE|DESIGN, IGNORECASE: the first alternative
\* that matches at i wins
NoiseLen(t, i) ==
  LET hits == {a \in 1..Len(NoiseAlternatives) : MatchLitCI(t, i, NoiseAlternatives[a])}
  IN  IF hits = {} THEN 0
      ELSE Len(NoiseAlternatives[CHOOSE a \in hits : \A b \in hits : a <= b])

\* \s+of\s+\d{5}: each \s+ takes its whole run, since "of" and a digit are no spaces
OfGroupLen(t, i) ==
  LET k1 == RunLen(t, i, Space)
      k2 == RunLen(t, i + k1 + 2, Space)
  IN  IF /\ k1 >= 1
         /\ MatchLitCI(t, i + k1, <<"o","f">>)
         /\ k2 >= 1
         /\ DigitsAt(t, i + k1 + 2 + k2, 5)
      THEN k1 + 2 + k2 + 5 ELSE 0

\* -\d{1,5}(?:\s+of\s+\d{5})?\b at i: the most digits first, and for a number of
\* digits the group before its absence, as the matcher backtracks
HyphenAltLen(t, i) ==
  LET withGroup(d) == /\ OfGroupLen(t, i + 1 + d) > 0
                      /\ WordBoundary(t, i + 1 + d + OfGroupLen(t, i + 1 + d))
      noGroup(d)   == WordBoundary(t, i + 1 + d)
      ok == {d \in 1..5 : DigitsAt(t, i + 1, d) /\ (withGroup(d) \/ noGroup(d))}
  IN  IF ~IsIn(t, i, {"-"}) \/ ok = {} THEN 0
      ELSE LET d == CHOOSE x \in ok : \A y \in ok : y <= x
           IN  IF withGroup(d) THEN 1 + d + OfGroupLen(t, i + 1 + d) ELSE 1 + d

\* the alternative without its closing \b: five digits, whatever follows them
OfAltLenNoBoundary(t, i) == OfGroupLen(t, i)

\* \s+of\s+\d{5}\b at i
OfAltLen(t, i) ==
  IF OfGroupLen(t, i) > 0 /\ WordBoundary(t, i + OfGroupLen(t, i))
  THEN OfGroupLen(t, i) ELSE 0

\* \b[A-Z]\d{2}(?:-\d{1,5}(?:\s+of\s+\d{5})?|\s+of\s+\d{5})\b, IGNORECASE
StructureLen(t, i) ==
  IF ~(WordBoundary(t, i) /\ IsIn(t, i, Letter) /\ DigitsAt(t, i + 1, 2)) THEN 0
  ELSE IF HyphenAltLen(t, i + 3) > 0 THEN 3 + HyphenAltLen(t, i + 3)
  ELSE IF OfAltLen(t, i + 3) > 0 THEN 3 + OfAltLen(t, i + 3)
  ELSE 0

\* \s{3,}: a run of two is left alone
SpacesLenFromThree(t, i) ==
  LET k == RunLen(t, i, Space) IN IF k >= 3 THEN k ELSE 0

\* \s{2,}
SpacesLen(t, i) ==
  LET k == RunLen(t, i, Space) IN IF k >= 2 THEN k ELSE 0

\* the length of pattern p's match at position i of t, 0 for no match
MatchLen(p, t, i) ==
  CASE p = "contract_for" -> ContractForLen(t, i)
    [] p = "squished"     -> SquishedLen(t, i)
    [] p = "jn"           -> TokenLen(t, i, <<"J","N">>)
    [] p = "date"         -> TokenLen(t, i, <<"D","A","T","E">>)
    [] p = "noise"        -> NoiseLen(t, i)
    [] p = "structure"    -> StructureLen(t, i)
    [] p = "spaces"       -> SpacesLen(t, i)

\* what pattern p's match of length n at position i is replaced by
Replacement(p, t, i, n) ==
  CASE p = "contract_for" -> Lit(ContractForLit)
    [] p = "squished"     -> SubSeq(t, i, i + 11) \o Lit(<<":"," ">>) \o <<t[i + 12]>>
    [] p = "jn"           -> Lit(JobNumberLit)
    [] p = "date"         -> Lit(DateLit)
    [] p = "noise"        -> <<>>
    [] p = "structure"    -> <<>>
    [] p = "spaces"       -> Lit(<<" ">>)

\* re.sub from position i on: the leftmost match, then on after it
RECURSIVE SubFrom(_, _, _)
SubFrom(p, t, i) ==
  IF i > Len(t) THEN <<>>
  ELSE LET n == MatchLen(p, t, i)
       IN  IF n > 0 THEN Replacement(p, t, i, n) \o SubFrom(p, t, i + n)
           ELSE <<t[i]>> \o SubFrom(p, t, i + 1)

\* re.sub(pattern, replacement, text)
ReSub(p, t) == SubFrom(p, t, 1)

\* str.strip()
Strip(t) ==
  IF \A i \in 1..Len(t) : t[i][1] \in Space THEN <<>>
  ELSE LET first == CHOOSE i \in 1..Len(t) :
                      t[i][1] \notin Space /\ \A j \in 1..(i - 1) : t[j][1] \in Space
           last  == CHOOSE i \in 1..Len(t) :
                      t[i][1] \notin Space /\ \A j \in (i + 1)..Len(t) : t[j][1] \in Space
       IN  SubSeq(t, first, last)

\* the substitutions of filter_target_section, in the order of its lines
Substitutions ==
  <<"contract_for", "squished", "jn", "date", "noise", "structure", "spaces">>

\* the text after the first k substitutions
RECURSIVE AfterStep(_, _)
AfterStep(t, k) == IF k = 0 THEN t ELSE ReSub(Substitutions[k], AfterStep(t, k - 1))

\* filter_target_section on a tagged text
FilterTagged(t) == Strip(AfterStep(t, Len(Substitutions)))

\* filter_target_section(text)
filter_target_section(text) == Untag(FilterTagged(Tag(text)))

\* ---------------------------------------------------------------- state

VARIABLES
  \* the normaliser, called as the agent's tool
  ftext,    \* the text the filter tool is called with
  fout,     \* what filter_target_section returned
  fprov,    \* for each character of fout, its index in ftext (0: inserted)
  fstate,   \* "ready" before the call, "returned" after it
  fcalls,   \* calls made so far
  \* one call of extract_title_text_from_pdf
  epc,      \* the statement the call is at
  eregion,  \* whether a region was passed
  etext,    \* `text`, the direct extraction's result
  eocr,     \* `ocr_result`
  eret,     \* the value returned
  eraised,  \* where an exception was raised, and its description
  ecount,   \* how often the page was rasterised and the OCR model invoked
  \* the batch run of main.py
  pc,       \* the statement the run is at
  dirExists,      \* whether folder_path is a directory
  outDirExists,   \* whether folder_path/output is a directory
  dirFiles,       \* the names in folder_path, "output" aside
  existedAtStart, \* whether folder_path was a directory when the run started
  listing,  \* what os.listdir returned
  idx,      \* the loop's position in listing
  raw,      \* raw_response.get("output") of the file at idx
  results,  \* `results`
  outcomes, \* what happened to each file processed so far
  log,      \* the steps taken for the file at idx, each with the loop's position
  written   \* the collections written to bridge_work_summary.xlsx, in order

fvars == <<ftext, fout, fprov, fstate, fcalls>>

evars == <<epc, eregion, etext, eocr, eret, eraised, ecount>>

bvars == <<pc, dirExists, outDirExists, dirFiles, existedAtStart, listing, idx,
           raw, results, outcomes, log, written>>

vars == <<fvars, evars, bvars>>

\* the normaliser is not being called
FilterIdle ==
  /\ ftext = <<>>
  /\ fout = <<>>
  /\ fprov = <<>>
  /\ fstate = "idle"
  /\ fcalls = 0

\* the extractor is not being called
ExtractIdle ==
  /\ epc = "idle"
  /\ eregion = FALSE
  /\ etext = <<>>
  /\ eocr = <<>>
  /\ eret = <<>>
  /\ eraised = <<"none", <<>>>>
  /\ ecount = [raster |-> 0, ocr |-> 0]

\* no batch is running
BatchIdle ==
  /\ pc = "idle"
  /\ dirExists = FALSE
  /\ outDirExists = FALSE
  /\ dirFiles = {}
  /\ existedAtStart = FALSE
  /\ listing = <<>>
  /\ idx = 0
  /\ raw = [none |-> TRUE]
  /\ results = <<>>
  /\ outcomes = <<>>
  /\ log = <<>>
  /\ written = <<>>

\* ------------------------------------------------------- the normaliser

\* how many pieces an input text is put together from
MaxFragments == 3

\* how many times in a row the agent calls the tool, each time on the output of
\* the call before
MaxFilterCalls == 2

\* pieces of title-sheet text: whitespace, markers, noise words whole and split,
\* structure numbers and their parts, a job number
Fragments ==
  { <<" ">>, <<"\n">>,
    <<"D","E","S">>, <<"D","E","S","I","G","N">>, <<"I","G","N">>,
    <<"D","A","T","E">>,
    <<"J","N">>,
    <<"B","0","1","-","2">>,
    <<"C","0","3">>,
    <<" ","o","f"," ">>,
    <<"2","2","2","2","2">>,
    <<"1","2","3","4","5","6","A">>,
    <<"C","O","N","T","R","A","C","T","F","O","R">> }

\* the texts made of at most n fragments
RECURSIVE Texts(_)
Texts(n) ==
  IF n = 0 THEN {<<>>}
  ELSE LET shorter == Texts(n - 1)
       IN  shorter \cup {s \o f : s \in shorter, f \in Fragments}

FilterInit ==
  /\ ftext \in Texts(MaxFragments)
  /\ fout = <<>>
  /\ fprov = <<>>
  /\ fstate = "ready"
  /\ fcalls = 0
  /\ ExtractIdle
  /\ BatchIdle

\* filter_tool.func(text): the whole of filter_target_section
FilterTool ==
  /\ fstate = "ready"
  /\ \E r \in {FilterTagged(Tag(ftext))} :
       /\ fout' = Untag(r)
       /\ fprov' = [i \in 1..Len(r) |-> r[i][2]]
  /\ fstate' = "returned"
  /\ fcalls' = fcalls + 1
  /\ UNCHANGED <<ftext, evars, bvars>>

\* the agent calls the tool again, on the tool's own output
FilterAgain ==
  /\ fstate = "returned"
  /\ fcalls < MaxFilterCalls
  /\ ftext' = fout
  /\ fstate' = "ready"
  /\ UNCHANGED <<fout, fprov, fcalls, evars, bvars>>

FilterNext == FilterTool \/ FilterAgain

FilterSpec == FilterInit /\ [][FilterNext]_vars

\* -------------------------------------- extract_title_text_from_pdf

\* the direct extraction's result is used when its stripped length exceeds this
MinTextLength == 20

\* the longest word of a page's text layer
MaxTextLen == 22

\* the most whitespace on either side of it
MaxPad == 1

\* the most results the OCR model returns for the image
MaxOcrResults == 2

\* n times the character c
Repeat(c, n) == [i \in 1..n |-> c]

\* what page 0's text layer can hold: a word of any length up to MaxTextLen,
\* with whitespace around it
PageTexts ==
  { Repeat(" ", l) \o Repeat("x", n) \o Repeat("\n", r) :
      l \in 0..MaxPad, n \in 0..MaxTextLen, r \in 0..MaxPad }

\* str.strip() on plain text
strip(s) == Untag(Strip(Tag(s)))

\* separator.join(parts)
RECURSIVE join(_, _)
join(sep, parts) ==
  IF parts = <<>> THEN <<>>
  ELSE IF Len(parts) = 1 THEN parts[1]
  ELSE parts[1] \o sep \o join(sep, Tail(parts))

\* one result of the OCR model: with or without the key "rec_texts"
OcrResult ==
  { [has_rec_texts |-> FALSE, rec_texts |-> <<>>],
    [has_rec_texts |-> TRUE, rec_texts |-> <<>>],
    [has_rec_texts |-> TRUE, rec_texts |-> << <<"J","N">>, <<"1","2","3","4","5","6">> >>],
    [has_rec_texts |-> TRUE, rec_texts |-> << <<"D","E","C","K">> >>] }

\* what ocr_model.predict can return: a list of at most n results
RECURSIVE OcrResults(_)
OcrResults(n) ==
  IF n = 0 THEN {<<>>}
  ELSE LET shorter == OcrResults(n - 1)
       IN  shorter \cup {Append(r, x) : r \in shorter, x \in OcrResult}

\* str(e) of the exceptions the libraries raise
LibraryErrors == { <<"n","o"," ","f","i","l","e">>, <<"t","i","m","e","o","u","t">> }

\* str(e) of the UnboundLocalError for full_text
UnboundFullText == <<"f","u","l","l","_","t","e","x","t">>

FailedMarker ==
  <<"O","C","R"," ","e","x","t","r","a","c","t","i","o","n"," ",
    "f","a","i","l","e","d",":"," ">>

NoResultsText ==
  <<"O","C","R"," ","p","r","o","c","e","s","s","i","n","g"," ",
    "r","e","t","u","r","n","e","d"," ","n","o"," ","r","e","s","u","l","t","s",".">>

ExtractInit ==
  /\ epc = "direct"
  /\ eregion \in BOOLEAN
  /\ etext = <<>>
  /\ eocr = <<>>
  /\ eret = <<>>
  /\ eraised = <<"none", <<>>>>
  /\ ecount = [raster |-> 0, ocr |-> 0]
  /\ FilterIdle
  /\ BatchIdle

\* except Exception as e: return f"OCR extraction failed: {str(e)}"
ExceptHandler(at, e) ==
  /\ eraised' = <<at, e>>
  /\ eret' = FailedMarker \o e
  /\ epc' = "returned"

\* the exception leaves the function
Propagates(at, e) ==
  /\ eraised' = <<at, e>>
  /\ eret' = <<>>
  /\ epc' = "propagated"

\* method 1: open the PDF, load page 0, get its text (clipped to the region)
\* and close the document
DirectExtract ==
  /\ epc = "direct"
  /\ etext' \in PageTexts
  /\ epc' = "check"
  /\ UNCHANGED <<eregion, eocr, eret, eraised, ecount, fvars, bvars>>

\* one of method 1's calls raises
DirectExtractRaises ==
  /\ epc = "direct"
  /\ \E e \in LibraryErrors : ExceptHandler("direct", e)
  /\ UNCHANGED <<eregion, etext, eocr, ecount, fvars, bvars>>

\* the length test on the text as extracted, its whitespace counted
CheckLengthUnstripped ==
  /\ epc = "check"
  /\ IF etext # <<>> /\ Len(etext) > MinTextLength
     THEN eret' = etext /\ epc' = "returned"
     ELSE eret' = eret /\ epc' = "rasterize"
  /\ UNCHANGED <<eregion, etext, eocr, eraised, ecount, fvars, bvars>>

\* if text and len(text.strip()) > 20: return text
CheckLength ==
  /\ epc = "check"
  /\ IF etext # <<>> /\ Len(strip(etext)) > MinTextLength
     THEN eret' = etext /\ epc' = "returned"
     ELSE eret' = eret /\ epc' = "rasterize"
  /\ UNCHANGED <<eregion, etext, eocr, eraised, ecount, fvars, bvars>>

\* images = convert_from_path(...); img = images[0]
Rasterize ==
  /\ epc = "rasterize"
  /\ ecount' = [ecount EXCEPT !.raster = @ + 1]
  /\ epc' = "crop"
  /\ UNCHANGED <<eregion, etext, eocr, eret, eraised, fvars, bvars>>

\* convert_from_path raises, or returns no image
RasterizeRaises ==
  /\ epc = "rasterize"
  /\ ecount' = [ecount EXCEPT !.raster = @ + 1]
  /\ \E e \in LibraryErrors : ExceptHandler("rasterize", e)
  /\ UNCHANGED <<eregion, etext, eocr, fvars, bvars>>

\* if region: img = img.crop(region); then img_array = np.array(img)
Crop ==
  /\ epc = "crop"
  /\ epc' = "ocr"
  /\ UNCHANGED <<eregion, etext, eocr, eret, eraised, ecount, fvars, bvars>>

\* img.crop(region) raises
CropRaises ==
  /\ epc = "crop"
  /\ eregion
  /\ \E e \in LibraryErrors : ExceptHandler("crop", e)
  /\ UNCHANGED <<eregion, etext, eocr, ecount, fvars, bvars>>

\* ocr_result = ocr_model.predict(img_array)
RunOcr ==
  /\ epc = "ocr"
  /\ ecount' = [ecount EXCEPT !.ocr = @ + 1]
  /\ eocr' \in OcrResults(MaxOcrResults)
  /\ epc' = "assemble"
  /\ UNCHANGED <<eregion, etext, eret, eraised, fvars, bvars>>

\* ocr_model.predict raises
RunOcrRaises ==
  /\ epc = "ocr"
  /\ ecount' = [ecount EXCEPT !.ocr = @ + 1]
  /\ \E e \in LibraryErrors : ExceptHandler("ocr", e)
  /\ UNCHANGED <<eregion, etext, eocr, fvars, bvars>>

\* full_text after the loop: the join of the last result that has rec_texts;
\* the name is unbound when none has
FullTextBound(ocr) == \E i \in 1..Len(ocr) : ocr[i].has_rec_texts

FullText(ocr) ==
  LET last == CHOOSE i \in 1..Len(ocr) :
                /\ ocr[i].has_rec_texts
                /\ \A j \in (i + 1)..Len(ocr) : ~ocr[j].has_rec_texts
  IN  join(<<"\n">>, ocr[last].rec_texts)

\* return full_text placed after the try statement: nothing catches the error
UnboundPropagates == Propagates("assemble", UnboundFullText)

\* return full_text with full_text unbound: the UnboundLocalError is raised
\* inside the try block
UnboundRaised == ExceptHandler("assemble", UnboundFullText)

\* if ocr_result: the loop and return full_text; else the no-results text
Assemble ==
  /\ epc = "assemble"
  /\ IF eocr = <<>>
     THEN /\ eret' = NoResultsText
          /\ epc' = "returned"
          /\ UNCHANGED eraised
     ELSE IF FullTextBound(eocr)
     THEN /\ eret' = FullText(eocr)
          /\ epc' = "returned"
          /\ UNCHANGED eraised
     ELSE UnboundRaised
  /\ UNCHANGED <<eregion, etext, eocr, ecount, fvars, bvars>>

ExtractNext ==
  \/ DirectExtract
  \/ DirectExtractRaises
  \/ CheckLength
  \/ Rasterize
  \/ RasterizeRaises
  \/ Crop
  \/ CropRaises
  \/ RunOcr
  \/ RunOcrRaises
  \/ Assemble

ExtractSpec == ExtractInit /\ [][ExtractNext]_vars

\* ------------------------------------------------- the batch run, main.py

\* the most names folder_path holds, "output" aside
MaxFiles == 3

\* the most tool calls the agent makes for one file
MaxToolCalls == 2

PdfSuffix == <<".","p","d","f">>

\* the directory main.py creates in folder_path
OutputName == <<"o","u","t","p","u","t">>

\* names a plans folder can hold
FileNames ==
  { <<"a",".","p","d","f">>,
    <<"B",".","P","D","F">>,
    <<"c",".","P","d","f">>,
    <<"n",".","t","x","t">> }

\* str(e) of what agent_executor.invoke raises
InvokeErrors == { <<"4","0","1">>, <<"t","i","m","e","o","u","t">> }

\* str(e) of what parser.parse raises
ParseError == <<"b","a","d"," ","j","s","o","n">>

\* what the agent returns as its final output: an object with the three fields,
\* an object without its date, text that is no JSON
ModelOutputs ==
  { [job_number |-> <<"2","0","1","2","2","2","A">>,
     proposed_work |-> << <<"D","E","C","K">>, <<"O","V","E","R","L","A","Y">> >>,
     date |-> <<"5","/","1">>],
    [job_number |-> <<>>,
     proposed_work |-> <<>>,
     date |-> <<>>],
    [job_number |-> <<"2","0","1","2","2","2","A">>,
     proposed_work |-> << <<"D","E","C","K">> >>],
    [text |-> <<"s","o","r","r","y">>] }

\* the tools the agent is given: tools = [ocr_tool, filter_tool]
ToolCalls == {"ocr_tool", "filter_tool"}

\* whether parser.parse accepts the output: the fields of BridgeWork, all three
Parses(o) == DOMAIN o = {"job_number", "proposed_work", "date"}

\* the suffix test without lower()
IsPdfCaseSensitive(filename) == endswith(filename, PdfSuffix)

\* filename.lower().endswith(".pdf")
IsPdf(filename) == endswith(lower(filename), PdfSuffix)

\* the orders os.listdir can return the names in
Orderings(S) ==
  {f \in [1..Cardinality(S) -> S] : \A i, j \in 1..Cardinality(S) : i # j => f[i] # f[j]}

\* the row of a parsed response
SuccessRow(filename, r) ==
  [file_name |-> filename,
   job_number |-> r.job_number,
   proposed_work |-> join(<<","," ">>, r.proposed_work),
   date |-> join(<<>>, [i \in 1..Len(r.date) |-> <<r.date[i]>>])]

\* the row of a file whose processing raised e
FailureRow(filename, e) ==
  [file_name |-> filename,
   job_number |-> <<>>,
   proposed_work |-> <<>>,
   date |-> <<"E","r","r","o","r",":"," ">> \o e]

\* the tool calls among the steps logged
CallsIn(l) == SelectSeq(l, LAMBDA ev : ev[2] \in ToolCalls)

BatchInit ==
  /\ pc = "start"
  /\ dirExists \in BOOLEAN
  /\ outDirExists \in (IF dirExists THEN BOOLEAN ELSE {FALSE})
  /\ dirFiles \in (IF dirExists
                   THEN {S \in SUBSET FileNames : Cardinality(S) <= MaxFiles}
                   ELSE {{}})
  /\ existedAtStart = dirExists
  /\ listing = <<>>
  /\ idx = 0
  /\ raw = [none |-> TRUE]
  /\ results = <<>>
  /\ outcomes = <<>>
  /\ log = <<>>
  /\ written = <<>>
  /\ FilterIdle
  /\ ExtractIdle

\* os.makedirs(output_path, exist_ok=True): creates folder_path too when it is
\* missing
MakeDirs ==
  /\ pc = "start"
  /\ dirExists' = TRUE
  /\ outDirExists' = TRUE
  /\ pc' = "listdir"
  /\ UNCHANGED <<dirFiles, existedAtStart, listing, idx, raw, results, outcomes,
                 log, written, fvars, evars>>

\* os.makedirs raises (no permission to create): nothing catches it
MakeDirsRaises ==
  /\ pc = "start"
  /\ ~outDirExists
  /\ pc' = "aborted"
  /\ UNCHANGED <<dirExists, outDirExists, dirFiles, existedAtStart, listing, idx,
                 raw, results, outcomes, log, written, fvars, evars>>

\* os.listdir(folder_path), evaluated once, before the first iteration
ListDir ==
  /\ pc = "listdir"
  /\ listing' \in Orderings(dirFiles \cup {OutputName})
  /\ idx' = 1
  /\ pc' = "loop"
  /\ UNCHANGED <<dirExists, outDirExists, dirFiles, existedAtStart, raw, results,
                 outcomes, log, written, fvars, evars>>

\* a name that does not end in .pdf: the loop goes on to the next
SkipFile ==
  /\ pc = "loop"
  /\ idx <= Len(listing)
  /\ ~IsPdf(listing[idx])
  /\ idx' = idx + 1
  /\ UNCHANGED <<pc, dirExists, outDirExists, dirFiles, existedAtStart, listing,
                 raw, results, outcomes, log, written, fvars, evars>>

\* a PDF: agent_executor.invoke is called with the file's path in the query
StartFile ==
  /\ pc = "loop"
  /\ idx <= Len(listing)
  /\ IsPdf(listing[idx])
  /\ log' = << <<idx, "invoke">> >>
  /\ pc' = "agent"
  /\ UNCHANGED <<dirExists, outDirExists, dirFiles, existedAtStart, listing, idx,
                 raw, results, outcomes, written, fvars, evars>>

\* a tool call the executor still runs after invoke has returned
AgentCallsToolAfterReturn ==
  /\ pc \in {"agent", "parse"}
  /\ Len(CallsIn(log)) < MaxToolCalls
  /\ \E c \in ToolCalls : log' = Append(log, <<idx, c>>)
  /\ UNCHANGED <<pc, dirExists, outDirExists, dirFiles, existedAtStart, listing,
                 idx, raw, results, outcomes, written, fvars, evars>>

\* inside invoke, the model asks for one of the two tools; the prompt asks for
\* an order, the executor runs whatever is asked for
AgentCallsTool ==
  /\ pc = "agent"
  /\ Len(CallsIn(log)) < MaxToolCalls
  /\ \E c \in ToolCalls : log' = Append(log, <<idx, c>>)
  /\ UNCHANGED <<pc, dirExists, outDirExists, dirFiles, existedAtStart, listing,
                 idx, raw, results, outcomes, written, fvars, evars>>

\* invoke returns the model's final output
AgentReturns ==
  /\ pc = "agent"
  /\ raw' \in ModelOutputs
  /\ log' = Append(log, <<idx, "return">>)
  /\ pc' = "parse"
  /\ UNCHANGED <<dirExists, outDirExists, dirFiles, existedAtStart, listing, idx,
                 results, outcomes, written, fvars, evars>>

\* the failure row is appended and the loop is left
ExceptClauseLeavesLoop(e) ==
  /\ results' = Append(results, FailureRow(listing[idx], e))
  /\ outcomes' = Append(outcomes, [file |-> listing[idx], raised |-> TRUE, value |-> e])
  /\ idx' = idx + 1
  /\ pc' = "save"

\* except Exception as e: the failure row is appended and the loop goes on
ExceptClause(e) ==
  /\ results' = Append(results, FailureRow(listing[idx], e))
  /\ outcomes' = Append(outcomes, [file |-> listing[idx], raised |-> TRUE, value |-> e])
  /\ idx' = idx + 1
  /\ pc' = "loop"

\* invoke raises
AgentRaises ==
  /\ pc = "agent"
  /\ \E e \in InvokeErrors : ExceptClause(e)
  /\ log' = Append(log, <<idx, "raise">>)
  /\ UNCHANGED <<dirExists, outDirExists, dirFiles, existedAtStart, listing, raw,
                 written, fvars, evars>>

\* structured_response = parser.parse(...); results.append({...})
ParseAndAppend ==
  /\ pc = "parse"
  /\ Parses(raw)
  /\ results' = Append(results, SuccessRow(listing[idx], raw))
  /\ outcomes' = Append(outcomes, [file |-> listing[idx], raised |-> FALSE, value |-> raw])
  /\ log' = log \o << <<idx, "parse">>, <<idx, "append">> >>
  /\ idx' = idx + 1
  /\ pc' = "loop"
  /\ UNCHANGED <<dirExists, outDirExists, dirFiles, existedAtStart, listing, raw,
                 written, fvars, evars>>

\* parser.parse raises
ParseRaises ==
  /\ pc = "parse"
  /\ ~Parses(raw)
  /\ ExceptClause(ParseError)
  /\ log' = log \o << <<idx, "parse">>, <<idx, "raise">> >>
  /\ UNCHANGED <<dirExists, outDirExists, dirFiles, existedAtStart, listing, raw,
                 written, fvars, evars>>

\* the loop is over
EndLoop ==
  /\ pc = "loop"
  /\ idx > Len(listing)
  /\ pc' = "save"
  /\ UNCHANGED <<dirExists, outDirExists, dirFiles, existedAtStart, listing, idx,
                 raw, results, outcomes, log, written, fvars, evars>>

\* pd.DataFrame(results).to_excel(output_file, index=False)
Save ==
  /\ pc = "save"
  /\ written' = Append(written, results)
  /\ pc' = "done"
  /\ UNCHANGED <<dirExists, outDirExists, dirFiles, existedAtStart, listing, idx,
                 raw, results, outcomes, log, fvars, evars>>

\* to_excel raises (the file is open elsewhere, no writer installed)
SaveRaises ==
  /\ pc = "save"
  /\ pc' = "aborted"
  /\ UNCHANGED <<dirExists, outDirExists, dirFiles, existedAtStart, listing, idx,
                 raw, results, outcomes, log, written, fvars, evars>>

Init == BatchInit

Next ==
  \/ MakeDirs
  \/ MakeDirsRaises
  \/ ListDir
  \/ SkipFile
  \/ StartFile
  \/ AgentCallsTool
  \/ AgentReturns
  \/ AgentRaises
  \/ ParseAndAppend
  \/ ParseRaises
  \/ EndLoop
  \/ Save
  \/ SaveRaises

Spec == Init /\ [][Next]_vars

\* ------------------------------------------- the normaliser's properties

\* whether sub occurs in s
Contains(s, sub) ==
  \E i \in 1..(Len(s) + 1) :
    /\ i + Len(sub) - 1 <= Len(s)
    /\ SubSeq(s, i, i + Len(sub) - 1) = sub

AllDigits(w) == \A i \in 1..Len(w) : w[i] \in Digit

\* " of " and exactly five digits
IsOfPart(r) ==
  Len(r) = 9 /\ SubSeq(r, 1, 4) = <<" ","o","f"," ">> /\ AllDigits(SubSeq(r, 5, 9))

\* "-" and one to five digits
IsHyphenPart(r) ==
  Len(r) >= 2 /\ Len(r) <= 6 /\ r[1] = "-" /\ AllDigits(SubSeq(r, 2, Len(r)))

\* the recognised structure-number format: one letter, two digits, then "-" and
\* 1-5 digits optionally followed by " of " and 5 digits, or " of " and 5 digits
IsStructureNumber(w) ==
  /\ Len(w) >= 5
  /\ w[1] \in Letter /\ w[2] \in Digit /\ w[3] \in Digit
  /\ LET r == SubSeq(w, 4, Len(w))
     IN  \/ IsOfPart(r)
         \/ IsHyphenPart(r)
         \/ \E d \in 1..5 :
              /\ Len(r) = 1 + d + 9
              /\ IsHyphenPart(SubSeq(r, 1, 1 + d))
              /\ IsOfPart(SubSeq(r, 2 + d, Len(r)))

\* a job number: exactly six digits, optionally one trailing letter
IsJobNumber(w) ==
  /\ Len(w) \in {6, 7}
  /\ AllDigits(SubSeq(w, 1, 6))
  /\ Len(w) = 7 => w[7] \in Letter

\* s[a..b] stands as a token of its own: whitespace or the text's end on each side
OwnToken(s, a, b) ==
  /\ a = 1 \/ s[a - 1] \in Space
  /\ b = Len(s) \/ s[b + 1] \in Space

\* the places of the input where a token of the kind stands on its own
StructureTokens(s) ==
  {ab \in (1..Len(s)) \X (1..Len(s)) :
     /\ ab[1] <= ab[2]
     /\ OwnToken(s, ab[1], ab[2])
     /\ IsStructureNumber(SubSeq(s, ab[1], ab[2]))}

JobNumberTokens(s) ==
  {ab \in (1..Len(s)) \X (1..Len(s)) :
     /\ ab[1] <= ab[2]
     /\ OwnToken(s, ab[1], ab[2])
     /\ IsJobNumber(SubSeq(s, ab[1], ab[2]))}

\* C5: filter_target_section(filter_target_section(x)) = filter_target_section(x):
\* the second call in a row, made on the first call's output, returns its input
NormalizerIdempotent ==
  (fstate = "returned" /\ fcalls = 2) => fout = ftext

\* C6: the output holds no two consecutive spaces and neither starts nor ends
\* with whitespace
NoDoubleSpaceNoMargin ==
  fstate = "returned" =>
    /\ \A i \in 1..(Len(fout) - 1) : ~(fout[i] = " " /\ fout[i + 1] = " ")
    /\ fout # <<>> => (fout[1] \notin Space /\ fout[Len(fout)] \notin Space)

\* C6's case: an input that starts with a space and holds two in a row, and an
\* output that is not empty
DoubleSpaceInputFiltered ==
  /\ fstate = "returned"
  /\ fcalls = 1
  /\ Contains(ftext, <<" "," ">>)
  /\ ftext[1] = " "
  /\ Len(fout) > 3

\* C7: no character of a structure-number token of the input is left in the
\* output, and every job number that stands as a token of its own in the input
\* is in the output, its characters unchanged and in a row
StructureRemovedJobKept ==
  fstate = "returned" =>
    /\ \A ab \in StructureTokens(ftext) :
         \A k \in 1..Len(fprov) : ~(fprov[k] >= ab[1] /\ fprov[k] <= ab[2])
    /\ \A ab \in JobNumberTokens(ftext) :
         \E k \in 1..Len(fout) :
           \A j \in 0..(ab[2] - ab[1]) :
             /\ k + j <= Len(fout)
             /\ fprov[k + j] = ab[1] + j
             /\ fout[k + j] = ftext[ab[1] + j]

\* C7's case: the input holds a structure number and a job number, each a token
\* of its own
StructureAndJobFiltered ==
  /\ fstate = "returned"
  /\ fcalls = 1
  /\ StructureTokens(ftext) # {}
  /\ JobNumberTokens(ftext) # {}

\* C8: the output holds none of the boilerplate tokens, whatever the case
NoBoilerplateInOutput ==
  fstate = "returned" =>
    \A a \in 1..Len(NoiseAlternatives) :
      ~Contains(lower(fout), lower(NoiseAlternatives[a]))

\* -------------------------------------------- the extractor's properties

\* the direct extraction returned text (none of its calls raised)
DirectSucceeded == epc = "returned" /\ eraised[1] # "direct"

\* C3: text of a stripped length over 20 is returned without rasterising or
\* OCR; with 20 or less the page is rasterised and the OCR model invoked once
ExtractorFallback ==
  DirectSucceeded =>
    IF Len(strip(etext)) > 20
    THEN eret = etext /\ ecount.raster = 0 /\ ecount.ocr = 0
    ELSE ecount.raster = 1 /\ eraised[1] # "rasterize" /\ ecount.ocr = 1

\* C3 as amended: with 20 or less, rasterising is attempted once, and the OCR
\* model is invoked once unless rasterising or cropping raised, and then not at
\* all
ExtractorFallbackUnlessRaised ==
  DirectSucceeded =>
    IF Len(strip(etext)) > 20
    THEN eret = etext /\ ecount.raster = 0 /\ ecount.ocr = 0
    ELSE /\ ecount.raster = 1
         /\ ecount.ocr = (IF eraised[1] \in {"rasterize", "crop"} THEN 0 ELSE 1)

\* C3's case: text longer than 20 whose stripped length is exactly 20, and the
\* OCR model invoked
PaddedTextFallsBack ==
  /\ epc = "returned"
  /\ Len(etext) > 20
  /\ Len(strip(etext)) = 20
  /\ ecount.ocr = 1
  /\ eraised[1] = "none"

\* C4: no exception leaves the function, and a call in which one was raised
\* returns the marker followed by the exception's description
FailureIsReturned ==
  /\ epc # "propagated"
  /\ (epc = "returned" /\ eraised[1] # "none") =>
       /\ Len(eret) >= Len(FailedMarker)
       /\ SubSeq(eret, 1, Len(FailedMarker)) =
            <<"O","C","R"," ","e","x","t","r","a","c","t","i","o","n"," ",
              "f","a","i","l","e","d",":"," ">>
       /\ SubSeq(eret, Len(FailedMarker) + 1, Len(eret)) = eraised[2]
  /\ epc \notin {"returned", "propagated"} => eraised[1] = "none"

\* C4's case: the OCR model returned results, none with rec_texts, and the
\* call returned
UnboundFullTextReturned ==
  /\ epc = "returned"
  /\ eraised[1] = "assemble"
  /\ eocr # <<>>

\* ------------------------------------------------ the batch's properties

\* the names of the listing's first n entries that are PDFs, in order
PdfsAmong(n) ==
  SelectSeq(SubSeq(listing, 1, n),
            LAMBDA f : endswith(lower(f), <<".","p","d","f">>))

\* the row the claim describes for what happened to one file
RowFor(o) ==
  IF o.raised
  THEN [file_name |-> o.file,
        job_number |-> <<>>,
        proposed_work |-> <<>>,
        date |-> <<"E","r","r","o","r",":"," ">> \o o.value]
  ELSE [file_name |-> o.file,
        job_number |-> o.value.job_number,
        proposed_work |-> join(<<","," ">>, o.value.proposed_work),
        date |-> o.value.date]

\* C1: every file whose processing raised has the failure row with the
\* exception's description, every other file the row of its own response, and
\* once the loop is over every PDF of the listing has its row
BatchIsolation ==
  /\ Len(outcomes) = Len(results)
  /\ \A k \in 1..Len(results) : results[k] = RowFor(outcomes[k])
  /\ pc \in {"save", "done"} =>
       [k \in 1..Len(results) |-> results[k].file_name] = PdfsAmong(Len(listing))

\* C1's case: the run is over, the first PDF raised in invoke, the second in
\* parse, and the third has the row of its response
FailuresThenSuccess ==
  /\ pc = "done"
  /\ Len(results) = 3
  /\ outcomes[1].raised /\ outcomes[1].value \in InvokeErrors
  /\ outcomes[2].raised /\ outcomes[2].value = ParseError
  /\ ~outcomes[3].raised
  /\ results[3].job_number # <<>>

\* C2: the spreadsheet is written at most once, and only once the loop is
\* over, with one row per PDF of the listing, in the listing's order; a run that
\* ends has written it; and while the loop runs the collection holds one row
\* per PDF before the loop's position
WrittenOnceAfterLoop ==
  /\ Len(written) <= 1
  /\ Len(written) = 1 =>
       /\ pc = "done"
       /\ idx = Len(listing) + 1
       /\ written[1] = results
       /\ [k \in 1..Len(results) |-> results[k].file_name] = PdfsAmong(Len(listing))
  /\ pc = "done" => Len(written) = 1
  /\ pc \in {"loop", "agent", "parse"} =>
       /\ written = <<>>
       /\ Len(results) = Len(PdfsAmong(idx - 1))

\* C2's case: a run that is over, of a folder with a PDF whose suffix is in
\* capitals, a file that is no PDF and the output directory
WrittenMixedFolder ==
  /\ pc = "done"
  /\ Len(written) = 1
  /\ \E i, j \in 1..Len(listing) :
       /\ listing[i] = <<"B",".","P","D","F">>
       /\ listing[j] = <<"n",".","t","x","t">>
       /\ i < j
  /\ Len(results) = 2

\* C9: a run started on a folder that does not exist produces no spreadsheet
MissingDirectoryNoOutput == ~existedAtStart => written = <<>>

\* the place of the first step of the kind in the log, 0 when there is none
FirstAt(step) ==
  IF \E i \in 1..Len(log) : log[i][2] = step
  THEN CHOOSE i \in 1..Len(log) :
         log[i][2] = step /\ \A j \in 1..(i - 1) : log[j][2] # step
  ELSE 0

\* C10: a file ends in a success row only after the extractor was called, then
\* the normaliser, then the final output was parsed and the row appended
SuccessFollowsPipeline ==
  (log # <<>> /\ log[Len(log)][2] = "append") =>
    \E i, j \in 1..Len(log) :
      /\ log[i][2] = "ocr_tool"
      /\ log[j][2] = "filter_tool"
      /\ i < j
      /\ j < FirstAt("return")
      /\ FirstAt("return") < FirstAt("parse")
      /\ FirstAt("parse") < FirstAt("append")

\* where a step stands in one file's processing
Rank(step) ==
  CASE step = "invoke" -> 1
    [] step \in ToolCalls -> 2
    [] step = "return" -> 3
    [] step = "parse" -> 4
    [] step \in {"append", "raise"} -> 5

\* C10 as amended: the files are processed one after another, every step of a
\* file is taken before the next file begins, and for one file the tool calls,
\* if the agent makes any, come between invoke's call and its return, the
\* parse after the return, and the append after the parse
OneFileAtATime ==
  /\ \A i \in 1..Len(log) :
       /\ log[i][1] = log[1][1]
       /\ i > 1 => Rank(log[i - 1][2]) <= Rank(log[i][2])
       /\ i > 1 => (Rank(log[i][2]) > 2 => Rank(log[i - 1][2]) < Rank(log[i][2]))
       /\ log[i][2] = "append" => (i > 2 /\ log[i - 1][2] = "parse" /\ log[i - 2][2] = "return")
       /\ log[i][2] = "parse" => (i > 1 /\ log[i - 1][2] = "return")
  /\ log # <<>> => log[1][2] = "invoke"
  /\ pc \in {"agent", "parse"} =>
       /\ log # <<>> /\ log[1][1] = idx
       /\ Len(results) = Len(PdfsAmong(idx - 1))
  /\ (log # <<>> /\ log[Len(log)][2] = "append") =>
       /\ Len(results) = Len(PdfsAmong(log[1][1]))
       /\ results[Len(results)].file_name = listing[log[1][1]]
       /\ ~outcomes[Len(results)].raised

\* C10's case: the second PDF has its success row, and the agent called no tool
\* for it
SuccessWithoutTools ==
  /\ Len(results) = 2
  /\ log = << <<log[1][1], "invoke">>, <<log[1][1], "return">>,
              <<log[1][1], "parse">>, <<log[1][1], "append">> >>

====
